---- MODULE Spec2Model ----
(***************************************************************************)
(* AIYODHA financial firewall: the Policy Engine (policy_engine/server.py) *)
(* and the client-side guard (aiyodha_sdk/wrapper.py).                     *)
(*                                                                         *)
(* Amounts.  A heartbeat's cost arrives as a JSON decimal; the model names *)
(* it by its value in hundredths (5 is 0.05).  What the store does with it *)
(* depends on the backend startup_event selected:                          *)
(*   "redis": INCRBYFLOAT adds in extended precision and writes the result *)
(*            back as a decimal string of 17 fractional digits, so sums of *)
(*            two-digit decimals of this size are exact; an amount is the  *)
(*            one-element tuple of its integer number of hundredths.       *)
(*   "mock":  MockRedis adds Python floats (IEEE binary64, round to        *)
(*            nearest even) and stores str(val), which float() reads back  *)
(*            exactly; an amount is the binary64 value, written as the     *)
(*            integer value / 2^-57 in four 16-bit limbs, low limb first.  *)
(* An absent amount key is the empty tuple.                                *)
(***************************************************************************)
EXTENDS Integers, Sequences, FiniteSets, TLC

\* ------------------------------------------------------------ bounds
MaxReq == 2
MaxBeats == 2001
MaxInflight == 2
MaxPending == 1
MaxFailures == 4
MaxServed == 3
MaxReaders == 2
MaxCompleted == 11

\* ------------------------------------------------- program constants
LOCK_TIMEOUT == 5
MAX_LOCAL_RPS == 5
FAILURE_THRESHOLD == 3
COOLDOWN_SECONDS == 60
WINDOW_SECONDS == 1
MIN_SAMPLES == 5
MAX_HISTORY == 10
STD_DEV_LIMIT == 5
PREFIX_LEN == 11
W == 2 ^ 16

Agents == {"Agent_007", "Agent_X"}
SeededAgent == "Agent_007"
UnknownAgent == "Agent_X"
Nil == "nil"
NoAmount == <<>>
NoExpiry == -1
Never == -1

\* costs of the concurrent requests, in hundredths: 0.10 and 60.0 (the demo's
\* "whale" request); the sequential caller reports 0.05 (the SDK's default) or 50.0
Costs == {10, 6000}
BeatCosts == {5, 5000}
SeedBalance == 10000
SeedSpent == 0

\* ---------------------------------------------------- binary64 values
\* float(x) for the decimal literals the program handles, as limbs of x * 2^57
PyFloat(c) ==
  CASE c = 0     -> <<0, 0, 0, 0>>
    [] c = 5     -> <<39322, 39321, 39321, 25>>
    [] c = 10    -> <<13108, 13107, 13107, 51>>
    [] c = 15    -> <<52428, 52428, 52428, 76>>
    [] c = 20    -> <<26216, 26214, 26214, 102>>
    [] c = 25    -> <<0, 0, 0, 128>>
    [] c = 30    -> <<39320, 39321, 39321, 153>>
    [] c = 40    -> <<52432, 52428, 52428, 204>>
    [] c = 2000  -> <<0, 0, 0, 10240>>
    [] c = 2010  -> <<13312, 13107, 13107, 10291>>
    [] c = 2020  -> <<26112, 26214, 26214, 10342>>
    [] c = 2030  -> <<39424, 39321, 39321, 10393>>
    [] c = 2040  -> <<52224, 52428, 52428, 10444>>
    [] c = 3960  -> <<13312, 13107, 13107, 20275>>
    [] c = 3970  -> <<26624, 26214, 26214, 20326>>
    [] c = 3980  -> <<38912, 39321, 39321, 20377>>
    [] c = 3990  -> <<52224, 52428, 52428, 20428>>
    [] c = 4000  -> <<0, 0, 0, 20480>>
    [] c = 5000  -> <<0, 0, 0, 25600>>
    [] c = 6000  -> <<0, 0, 0, 30720>>
    [] c = 6010  -> <<13312, 13107, 13107, 30771>>
    [] c = 6020  -> <<26624, 26214, 26214, 30822>>
    [] c = 6030  -> <<38912, 39321, 39321, 30873>>
    [] c = 6040  -> <<52224, 52428, 52428, 30924>>
    [] c = 9960  -> <<12288, 13107, 13107, 50995>>
    [] c = 9970  -> <<26624, 26214, 26214, 51046>>
    [] c = 9975  -> <<0, 0, 0, 51072>>
    [] c = 9980  -> <<38912, 39321, 39321, 51097>>
    [] c = 9985  -> <<12288, 13107, 13107, 51123>>
    [] c = 9990  -> <<53248, 52428, 52428, 51148>>
    [] c = 9995  -> <<26624, 26214, 26214, 51174>>
    [] c = 10000 -> <<0, 0, 0, 51200>>
    [] c = 12000 -> <<0, 0, 0, 61440>>
    [] c = 12010 -> <<12288, 13107, 13107, 61491>>
    [] c = 12020 -> <<26624, 26214, 26214, 61542>>
    [] c = 12030 -> <<38912, 39321, 39321, 61593>>
    [] c = 12040 -> <<53248, 52428, 52428, 61644>>

LZero == <<0, 0, 0, 0>>

\* exact sum of two limb values
LAdd(a, b) ==
  LET s1 == a[1] + b[1]
      s2 == a[2] + b[2] + (s1 \div W)
      s3 == a[3] + b[3] + (s2 \div W)
      s4 == a[4] + b[4] + (s3 \div W)
  IN  <<s1 % W, s2 % W, s3 % W, s4>>

\* exact difference a - b, for a >= b
LSub(a, b) ==
  LET d1 == a[1] - b[1]
      d2 == a[2] - b[2] + (d1 \div W)
      d3 == a[3] - b[3] + (d2 \div W)
      d4 == a[4] - b[4] + (d3 \div W)
  IN  <<d1 % W, d2 % W, d3 % W, d4>>

LLess(a, b) ==
  \/ a[4] < b[4]
  \/ a[4] = b[4] /\ a[3] < b[3]
  \/ a[4] = b[4] /\ a[3] = b[3] /\ a[2] < b[2]
  \/ a[4] = b[4] /\ a[3] = b[3] /\ a[2] = b[2] /\ a[1] < b[1]

Pow2(n) == IF n <= 0 THEN 1 ELSE 2 ^ n

Bits16(v) == IF v = 0 THEN 0 ELSE CHOOSE n \in 1..20 : Pow2(n - 1) <= v /\ v < Pow2(n)

BitLen(x) ==
  IF x[4] # 0 THEN 48 + Bits16(x[4])
  ELSE IF x[3] # 0 THEN 32 + Bits16(x[3])
  ELSE IF x[2] # 0 THEN 16 + Bits16(x[2])
  ELSE Bits16(x[1])

\* round an exact result to the 53 significant bits of a binary64, ties to even
Round53(x) ==
  LET k == BitLen(x) - 53
  IN  IF k <= 0 THEN x
      ELSE LET q    == Pow2(k)
               low  == x[1] % q
               base == <<x[1] - low, x[2], x[3], x[4]>>
               odd  == ((x[1] \div q) % 2) = 1
           IN  IF low * 2 > q \/ (low * 2 = q /\ odd)
               THEN LAdd(base, <<q, 0, 0, 0>>)
               ELSE base

FloatAdd(a, b) == Round53(LAdd(a, b))
FloatSub(a, b) == Round53(LSub(a, b))

VARIABLES
  backend,    \* "redis" or "mock": the store startup_event selected
  balance,    \* agent:<id>:balance, NoAmount when the key is absent
  spent,      \* agent:<id>:spent
  killed,     \* agent:<id>:killed: "true", "false" or Nil
  breaches,   \* stats:breaches (0 when absent)
  zombies,    \* stats:zombies (0 when absent)
  lock,       \* lock:<id>: [set, ttl], ttl the seconds the key has left to live
  req,        \* the requests in the engine, by number
  cur,        \* the request running between two yields of the event loop (0: none)
  beats,      \* heartbeats a sequential caller has had answered
  beatCost,   \* the cost that caller reports with every heartbeat (0: no such caller)
  twin,       \* two engines, one per backend, served the same requests one by one
  rd,         \* the GET /status/{agent_id} calls in the engine, by number
  \* ---- one AiyodhaClient.  Times are kept relative to the client's time.time():
  local_kill_switch,
  request_timestamps,     \* per entry, time.time() - timestamp in seconds (2: more than 1)
  consecutive_failures,
  circuit_tripped_until,  \* circuit_tripped_until - time.time() in seconds (0: not after now)
  response_history,
  inflight,               \* the is_zombie flags of the heartbeat tasks not yet completed
  pending,                \* the prompt lengths of the calls awaiting _mock_llm_call
  last,                   \* how the latest create() attempt left the admission checks
  \* ---- history kept for the properties, read by no action's guard or effect
  admitted_ago,           \* <<admissions in the current second, in the second before>>
  tripped_ago,            \* seconds since the last failure counted at or over the threshold
  failures_since_ok,      \* transport failures completed since the last 200 or 402
  completed,              \* the response lengths handed to _update_zombie_history, in order
  verdict,                \* what _check_zombie_status returned for the present history
  answered,               \* the latest step was a response received: its status_code (0: it was not)
  reopened                \* the latest step was a failure opening a circuit whose cooldown was over

svars == <<backend, balance, spent, killed, breaches, zombies, lock, req, cur,
           beats, beatCost, twin, rd>>

cvars == <<local_kill_switch, request_timestamps, consecutive_failures,
           circuit_tripped_until, response_history, inflight, pending, last,
           admitted_ago, tripped_ago, failures_since_ok, completed, verdict, answered,
           reopened>>

zvars == <<completed, verdict>>

vars == <<svars, cvars>>

ledger == <<balance, spent, killed>>
stats == <<breaches, zombies>>

ReqIds == 1..MaxReq

NoLock == [set |-> FALSE, ttl |-> NoExpiry]

IdleReq == [kind |-> "none", agent |-> Nil, cost |-> 0, zombie |-> FALSE,
            pc |-> "idle", waited |-> 0, is_locked |-> FALSE,
            bal |-> NoAmount, status |-> 0, detail |-> Nil, remaining |-> NoAmount,
            sawKilled |-> FALSE, acquired |-> FALSE, deletes |-> 0]

\* --------------------------------------------------------- the store
Backends == {"redis", "mock"}

\* a value as backend b holds it
AmountOn(b, c) == IF b = "redis" THEN <<c>> ELSE PyFloat(c)

\* incrbyfloat(key, +amount) on backend b
IncrByFloatOn(b, v, c) == IF b = "redis" THEN <<v[1] + c>> ELSE FloatAdd(v, PyFloat(c))

\* incrbyfloat(key, -amount) on backend b
DecrByFloatOn(b, v, c) == IF b = "redis" THEN <<v[1] - c>> ELSE FloatSub(v, PyFloat(c))

\* float(balance) < request.cost on backend b
BalanceLessOn(b, v, c) == IF b = "redis" THEN v[1] < c ELSE LLess(v, PyFloat(c))

\* MockRedis defines no incr: the call raises AttributeError
HasIncrOn(b) == b = "redis"

\* float(<the stored string>): Redis holds the decimal, MockRedis str(val)
FloatOf(b, v) == IF b = "redis" THEN PyFloat(v[1]) ELSE v

\* float(<the stored string>) with its sign: two heartbeats that both passed the
\* budget check can leave a balance below zero
SignedOf(b, v) ==
  IF b = "redis"
  THEN [neg |-> v[1] < 0, mag |-> PyFloat(IF v[1] < 0 THEN -v[1] ELSE v[1])]
  ELSE [neg |-> FALSE, mag |-> v]

\* x + y in binary64
SignedAdd(x, y) ==
  IF x.neg = y.neg THEN [neg |-> x.neg, mag |-> FloatAdd(x.mag, y.mag)]
  ELSE IF LLess(x.mag, y.mag) THEN [neg |-> y.neg, mag |-> FloatSub(y.mag, x.mag)]
  ELSE [neg |-> x.neg /\ x.mag # y.mag, mag |-> FloatSub(x.mag, y.mag)]

\* the seed values as the selected backend holds them
Amount(c) == AmountOn(backend, c)

\* redis.incrbyfloat(key, +amount) / MockRedis.incrbyfloat
IncrByFloat(v, c) == IncrByFloatOn(backend, v, c)

\* redis.incrbyfloat(key, -amount)
DecrByFloat(v, c) == DecrByFloatOn(backend, v, c)

\* float(balance) < request.cost
BalanceLess(v, c) == BalanceLessOn(backend, v, c)

HasIncr == HasIncrOn(backend)

\* ------------------------------------------------------ startup_event
Seeded ==
  /\ backend \in Backends
  /\ balance = [a \in Agents |-> IF a = SeededAgent THEN Amount(SeedBalance) ELSE NoAmount]
  /\ spent = [a \in Agents |-> IF a = SeededAgent THEN Amount(SeedSpent) ELSE NoAmount]
  /\ killed = [a \in Agents |-> IF a = SeededAgent THEN "false" ELSE Nil]
  /\ breaches = 0
  /\ zombies = 0
  /\ lock = [a \in Agents |-> NoLock]
  /\ req = [r \in ReqIds |-> IdleReq]
  /\ cur = 0

\* ------------------------------------- the engine, one request at a time
\* With one request in the engine at a time the lock is free when the request
\* arrives and deleted when it leaves, and a handler is a function of the store
\* and the request.  A store is [balance, spent, killed, breaches, zombies].
StartupStore(b) ==
  [balance  |-> [a \in Agents |-> IF a = SeededAgent
                                  THEN AmountOn(b, SeedBalance) ELSE NoAmount],
   spent    |-> [a \in Agents |-> IF a = SeededAgent
                                  THEN AmountOn(b, SeedSpent) ELSE NoAmount],
   killed   |-> [a \in Agents |-> IF a = SeededAgent THEN "false" ELSE Nil],
   breaches |-> 0,
   zombies  |-> 0]

\* an HTTP answer: the status code and the body (detail or status string, the
\* floats, the integers and the boolean of the JSON object)
Answer(st, status, detail, floats, ints, flag) ==
  [store |-> st, status |-> status,
   body |-> [detail |-> detail, floats |-> floats, ints |-> ints, flag |-> flag]]

\* incr("stats:breaches") and the 402 that follows it
BreachOn(b, s, detail) ==
  IF HasIncrOn(b)
  THEN Answer([s EXCEPT !.breaches = @ + 1], 402, detail, <<>>, <<>>, Nil)
  ELSE Answer(s, 500, "Internal Server Error", <<>>, <<>>, Nil)

\* POST /heartbeat
HeartbeatOn(b, s, a, c, z) ==
  IF s.balance[a] = NoAmount
  THEN Answer(s, 404, "Agent not found", <<>>, <<>>, Nil)
  ELSE IF s.killed[a] = "true"
  THEN BreachOn(b, s, "Payment Required: Agent Killed")
  ELSE IF z
  THEN IF HasIncrOn(b)
       THEN Answer([s EXCEPT !.zombies = @ + 1, !.killed[a] = "true"], 402,
                   "Payment Required: Zombie Agent Detected", <<>>, <<>>, Nil)
       ELSE Answer(s, 500, "Internal Server Error", <<>>, <<>>, Nil)
  ELSE IF BalanceLessOn(b, s.balance[a], c)
  THEN BreachOn(b, s, "Payment Required: Insufficient Budget")
  ELSE LET new_balance == DecrByFloatOn(b, s.balance[a], c)
       IN  Answer([s EXCEPT !.balance[a] = new_balance,
                            !.spent[a] = IncrByFloatOn(b, @, c)],
                  200, "ok", <<FloatOf(b, new_balance)>>, <<>>, Nil)

\* POST /admin/kill_switch
KillSwitchOn(b, s, a) ==
  IF s.balance[a] = NoAmount
  THEN Answer(s, 404, "Agent not found", <<>>, <<>>, Nil)
  ELSE Answer([s EXCEPT !.killed[a] = "true"], 200, "killed", <<>>, <<>>, Nil)

\* the body of GET /status/{agent_id} from the three values read: budget,
\* remaining, spent, killed
StatusBody(b, bal, sp, k) ==
  IF bal = NoAmount
  THEN [detail |-> "{}", floats |-> <<>>, ints |-> <<>>, flag |-> Nil]
  ELSE [detail |-> "status",
        floats |-> <<SignedAdd(SignedOf(b, bal), SignedOf(b, sp)), SignedOf(b, bal),
                     SignedOf(b, sp)>>,
        ints   |-> <<>>,
        flag   |-> IF k = "true" THEN "true" ELSE "false"]

\* GET /status/{agent_id}
StatusOn(b, s, a) ==
  [store |-> s, status |-> 200,
   body |-> StatusBody(b, s.balance[a], s.spent[a], s.killed[a])]

\* GET /stats/resilience
ResilienceOn(b, s) == Answer(s, 200, "stats", <<>>, <<s.zombies, s.breaches, 0>>, Nil)

\* the requests served: <<endpoint, agent_id, cost, is_zombie>>
Requests ==
  {<<"heartbeat", SeededAgent, c, z>> : c \in Costs, z \in BOOLEAN}
    \cup {<<"heartbeat", UnknownAgent, 10, FALSE>>}
    \cup {<<"kill_switch", a, 0, FALSE>> : a \in Agents}
    \cup {<<"status", a, 0, FALSE>> : a \in Agents}
    \cup {<<"resilience", Nil, 0, FALSE>>}

ServeOn(b, s, q) ==
  CASE q[1] = "heartbeat"   -> HeartbeatOn(b, s, q[2], q[3], q[4])
    [] q[1] = "kill_switch" -> KillSwitchOn(b, s, q[2])
    [] q[1] = "status"      -> StatusOn(b, s, q[2])
    [] q[1] = "resilience"  -> ResilienceOn(b, s)

\* what a store holds as the values the engine reads from it: float(balance),
\* float(spent), killed, int(breaches), int(zombies)
LedgerOf(b, s) ==
  [balance  |-> [a \in Agents |-> IF s.balance[a] = NoAmount THEN NoAmount
                                  ELSE FloatOf(b, s.balance[a])],
   spent    |-> [a \in Agents |-> IF s.spent[a] = NoAmount THEN NoAmount
                                  ELSE FloatOf(b, s.spent[a])],
   killed   |-> s.killed,
   breaches |-> s.breaches,
   zombies  |-> s.zombies]

NoAnswer == [status |-> 0,
             body |-> [detail |-> Nil, floats |-> <<>>, ints |-> <<>>, flag |-> Nil]]

NoRequest == <<"none", Nil, 0, FALSE>>

TwinInit ==
  twin = [store   |-> [b \in Backends |-> StartupStore(b)],
          request |-> NoRequest,
          answer  |-> [b \in Backends |-> NoAnswer],
          served  |-> 0]

\* the status calls: the values read so far and the response.  base is kept for
\* the properties: the agent's record as the call's first get met it, Torn once
\* a later get of the call met a record that differs from it.
Readers == 1..MaxReaders
Torn == <<"torn">>
IdleReader == [pc |-> "idle", agent |-> Nil, balance |-> NoAmount, spent |-> NoAmount,
               status |-> 0, body |-> NoAnswer.body, base |-> <<>>]
StatusInit == rd = [i \in Readers |-> IdleReader]

\* the prompts a caller passes to create(), by length ("Hello world")
PromptLens == {11}

\* what a heartbeat task can meet: an HTTP response with one of the engine's
\* status codes, a transport error (httpx.RequestError / HTTPError), or any
\* other exception
Statuses == {200, 402, 404, 500, 503}
Outcomes == {"Response", "RequestError", "Exception"}

\* AiyodhaClient.__init__
ClientInit ==
  /\ local_kill_switch = FALSE
  /\ request_timestamps = <<>>
  /\ consecutive_failures = 0
  /\ circuit_tripped_until = 0
  /\ response_history = <<>>
  /\ inflight = [z \in BOOLEAN |-> 0]
  /\ pending = [p \in PromptLens |-> 0]
  /\ last = "none"
  /\ admitted_ago = <<0, 0>>
  /\ tripped_ago = Never
  /\ failures_since_ok = 0
  /\ completed = <<>>
  /\ verdict = "none"
  /\ answered = 0
  /\ reopened = FALSE

Init == Seeded /\ TwinInit /\ StatusInit /\ ClientInit /\ beats = 0 /\ beatCost = 0

\* ------------------------------------------------------- scheduling
\* On "redis" every store call is a network round trip and yields to the event
\* loop.  On "mock" no store call suspends, so a handler runs from its first
\* line to its last without another coroutine in between.
MayRun(r) == cur \in {0, r}

Yield(r, done) == IF backend = "mock" /\ ~done THEN r ELSE 0

Done(r) == req[r].pc = "done"
Active(r) == req[r].pc \notin {"idle", "done"}

\* the requests are numbered in the order they arrive
NextArrival(r) == req[r].pc = "idle" /\ \A q \in ReqIds : q < r => req[q].pc # "idle"

rest == <<beats, beatCost, twin, rd, cvars>>

\* ------------------------------------------- DistributedLock.__aenter__
\* a request enters its handler: DistributedLock(...), start_time = time.time().
\* req[r].waited is time.time() - start_time, in seconds.
Arrive(r, k, a, c, z) ==
  /\ cur = 0
  /\ req[r].pc = "idle"
  /\ req' = [req EXCEPT ![r] = [IdleReq EXCEPT !.kind = k, !.agent = a, !.cost = c,
                                               !.zombie = z, !.pc = "acquire",
                                               !.sawKilled = (killed[a] = "true")]]
  /\ cur' = Yield(r, FALSE)
  /\ UNCHANGED <<backend, ledger, stats, lock>>

\* (a heartbeat for an agent without a record is answered before its cost and
\* zombie flag are read: one such request stands for all)
Start(r) ==
  /\ NextArrival(r)
  /\ \/ \E c \in Costs, z \in BOOLEAN : Arrive(r, "heartbeat", SeededAgent, c, z)
     \/ Arrive(r, "heartbeat", UnknownAgent, 10, FALSE)
     \/ \E a \in Agents : Arrive(r, "kill_switch", a, 0, FALSE)
  /\ UNCHANGED rest

\* setnx(lock:<id>, "locked") succeeds
LockAcquire(r) ==
  /\ MayRun(r)
  /\ req[r].pc = "acquire"
  /\ ~lock[req[r].agent].set
  /\ lock' = [lock EXCEPT ![req[r].agent] = [set |-> TRUE, ttl |-> NoExpiry]]
  /\ req' = [req EXCEPT ![r].pc = "expire", ![r].acquired = TRUE]
  /\ cur' = Yield(r, FALSE)
  /\ UNCHANGED <<backend, ledger, stats, rest>>

\* setnx fails and time.time() - start_time > timeout: 503.  (A failed setnx within
\* the timeout sleeps 10 ms and tries again: no change of state.)
LockBusy(r) ==
  /\ MayRun(r)
  /\ req[r].pc = "acquire"
  /\ lock[req[r].agent].set
  /\ req[r].waited > LOCK_TIMEOUT
  /\ req' = [req EXCEPT ![r].pc = "done", ![r].status = 503, ![r].detail = "busy",
                        ![r].waited = 0]
  /\ cur' = 0
  /\ UNCHANGED <<backend, ledger, stats, lock, rest>>

\* expire(lock:<id>, timeout); is_locked = True.  Redis sets the key's time to
\* live when the key exists; MockRedis.expire does nothing.
LockExpire(r) ==
  /\ MayRun(r)
  /\ req[r].pc = "expire"
  /\ lock' = IF backend = "redis" /\ lock[req[r].agent].set
             THEN [lock EXCEPT ![req[r].agent].ttl = LOCK_TIMEOUT]
             ELSE lock
  /\ req' = [req EXCEPT ![r].is_locked = TRUE, ![r].waited = 0,
                        ![r].pc = IF req[r].kind = "heartbeat" THEN "get_balance"
                                  ELSE "kill_get_balance"]
  /\ cur' = Yield(r, FALSE)
  /\ UNCHANGED <<backend, ledger, stats, rest>>

\* ------------------------------------------------------------ heartbeat
\* 1. balance = get(key_balance); None: 404
GetBalance(r) ==
  /\ MayRun(r)
  /\ req[r].pc = "get_balance"
  /\ req' = IF balance[req[r].agent] = NoAmount
            THEN [req EXCEPT ![r].pc = "release", ![r].status = 404,
                             ![r].detail = "not_found"]
            ELSE [req EXCEPT ![r].pc = "get_killed", ![r].bal = balance[req[r].agent]]
  /\ cur' = Yield(r, FALSE)
  /\ UNCHANGED <<backend, ledger, stats, lock, rest>>

\* where the handler goes after reading the kill flag: steps 2, 3, 4 in order
AfterKilled(k, z, bal, c) ==
  IF k = "true" THEN "breach_killed"
  ELSE IF z THEN "incr_zombies"
  ELSE IF BalanceLess(bal, c) THEN "breach_budget"
  ELSE "deduct"

\* 2. killed = get(key_killed), and the branch taken on it
GetKilled(r) ==
  /\ MayRun(r)
  /\ req[r].pc = "get_killed"
  /\ req' = [req EXCEPT ![r].pc = AfterKilled(killed[req[r].agent], req[r].zombie,
                                               req[r].bal, req[r].cost),
                        ![r].bal = NoAmount]
  /\ cur' = Yield(r, FALSE)
  /\ UNCHANGED <<backend, ledger, stats, lock, rest>>

\* incr("stats:breaches") and the 402 of step 2 or step 4
IncrBreaches(r) ==
  /\ MayRun(r)
  /\ req[r].pc \in {"breach_killed", "breach_budget"}
  /\ IF HasIncr
     THEN /\ breaches' = breaches + 1
          /\ req' = [req EXCEPT ![r].pc = "release", ![r].status = 402,
                                ![r].detail = IF req[r].pc = "breach_killed"
                                              THEN "killed" ELSE "insufficient_budget"]
     ELSE /\ breaches' = breaches
          /\ req' = [req EXCEPT ![r].pc = "release", ![r].status = 500,
                                ![r].detail = "AttributeError"]
  /\ cur' = Yield(r, FALSE)
  /\ UNCHANGED <<backend, ledger, zombies, lock, rest>>

\* 3. incr("stats:zombies")
IncrZombies(r) ==
  /\ MayRun(r)
  /\ req[r].pc = "incr_zombies"
  /\ IF HasIncr
     THEN /\ zombies' = zombies + 1
          /\ req' = [req EXCEPT ![r].pc = "set_killed"]
     ELSE /\ zombies' = zombies
          /\ req' = [req EXCEPT ![r].pc = "release", ![r].status = 500,
                                ![r].detail = "AttributeError"]
  /\ cur' = Yield(r, FALSE)
  /\ UNCHANGED <<backend, ledger, breaches, lock, rest>>

\* 3. set(key_killed, "true") and the 402
SetKilled(r) ==
  /\ MayRun(r)
  /\ req[r].pc = "set_killed"
  /\ killed' = [killed EXCEPT ![req[r].agent] = "true"]
  /\ req' = [req EXCEPT ![r].pc = "release", ![r].status = 402, ![r].detail = "zombie"]
  /\ cur' = Yield(r, FALSE)
  /\ UNCHANGED <<backend, balance, spent, stats, lock, rest>>

\* 5. new_balance = incrbyfloat(key_balance, -cost)
Deduct(r) ==
  /\ MayRun(r)
  /\ req[r].pc = "deduct"
  /\ balance' = [balance EXCEPT ![req[r].agent] = DecrByFloat(@, req[r].cost)]
  /\ req' = [req EXCEPT ![r].pc = "add_spent",
                        ![r].remaining = balance'[req[r].agent]]
  /\ cur' = Yield(r, FALSE)
  /\ UNCHANGED <<backend, spent, killed, stats, lock, rest>>

\* 5. incrbyfloat(key_spent, cost); return {"status": "ok", ...}
AddSpent(r) ==
  /\ MayRun(r)
  /\ req[r].pc = "add_spent"
  /\ spent' = [spent EXCEPT ![req[r].agent] = IncrByFloat(@, req[r].cost)]
  /\ req' = [req EXCEPT ![r].pc = "release", ![r].status = 200, ![r].detail = "ok"]
  /\ cur' = Yield(r, FALSE)
  /\ UNCHANGED <<backend, balance, killed, stats, lock, rest>>

\* ---------------------------------------------------------- kill_switch
\* if not get(balance key): 404
KillGetBalance(r) ==
  /\ MayRun(r)
  /\ req[r].pc = "kill_get_balance"
  /\ req' = IF balance[req[r].agent] = NoAmount
            THEN [req EXCEPT ![r].pc = "release", ![r].status = 404,
                             ![r].detail = "not_found"]
            ELSE [req EXCEPT ![r].pc = "kill_set_killed"]
  /\ cur' = Yield(r, FALSE)
  /\ UNCHANGED <<backend, ledger, stats, lock, rest>>

\* set(key_killed, "true"); return {"status": "killed", ...}
KillSetKilled(r) ==
  /\ MayRun(r)
  /\ req[r].pc = "kill_set_killed"
  /\ killed' = [killed EXCEPT ![req[r].agent] = "true"]
  /\ req' = [req EXCEPT ![r].pc = "release", ![r].status = 200, ![r].detail = "killed"]
  /\ cur' = Yield(r, FALSE)
  /\ UNCHANGED <<backend, balance, spent, stats, lock, rest>>

\* (mutant: the key deleted only when the body returned, not when it raised)
ReleaseOnSuccess(r) ==
  /\ MayRun(r)
  /\ req[r].pc = "release"
  /\ lock' = IF req[r].is_locked /\ req[r].status = 200
             THEN [lock EXCEPT ![req[r].agent] = NoLock] ELSE lock
  /\ req' = [req EXCEPT ![r].pc = "done", ![r].is_locked = FALSE,
                        ![r].deletes = IF req[r].is_locked /\ req[r].status = 200
                                       THEN @ + 1 ELSE @]
  /\ cur' = 0
  /\ UNCHANGED <<backend, ledger, stats, rest>>

\* -------------------------------------------- DistributedLock.__aexit__
\* if is_locked: delete(lock:<id>); is_locked = False
Release(r) ==
  /\ MayRun(r)
  /\ req[r].pc = "release"
  /\ lock' = IF req[r].is_locked THEN [lock EXCEPT ![req[r].agent] = NoLock] ELSE lock
  /\ req' = [req EXCEPT ![r].pc = "done", ![r].is_locked = FALSE,
                        ![r].deletes = IF req[r].is_locked THEN @ + 1 ELSE @]
  /\ cur' = 0
  /\ UNCHANGED <<backend, ledger, stats, rest>>

\* ----------------------------------------------------------------- time
\* A second passes while a request waits for a lock that is taken: the waiters'
\* clocks advance (they are read only against the timeout, so they stop one past
\* it) and Redis drops the keys whose time to live has run out.
Blocked(r) == req[r].pc = "acquire" /\ lock[req[r].agent].set

Tick ==
  /\ cur = 0
  /\ \E r \in ReqIds : Blocked(r)
  /\ req' = [r \in ReqIds |->
               IF req[r].pc = "acquire" /\ req[r].waited <= LOCK_TIMEOUT
               THEN [req[r] EXCEPT !.waited = @ + 1] ELSE req[r]]
  /\ lock' = [a \in Agents |->
                IF lock[a].set /\ lock[a].ttl = 1 THEN NoLock
                ELSE IF lock[a].set /\ lock[a].ttl > 1
                     THEN [lock[a] EXCEPT !.ttl = @ - 1]
                     ELSE lock[a]]
  /\ UNCHANGED <<backend, ledger, stats, cur, rest>>

Step(r) ==
  \/ LockAcquire(r)
  \/ LockBusy(r)
  \/ LockExpire(r)
  \/ GetBalance(r)
  \/ GetKilled(r)
  \/ IncrBreaches(r)
  \/ IncrZombies(r)
  \/ SetKilled(r)
  \/ Deduct(r)
  \/ AddSpent(r)
  \/ KillGetBalance(r)
  \/ KillSetKilled(r)
  \/ Release(r)

Next ==
  \/ \E r \in ReqIds : Start(r)
  \/ \E r \in ReqIds : Step(r)
  \/ Tick

Spec == Init /\ [][Next]_vars

\* The event loop runs every coroutine that is ready, and time passes: a request
\* that can take a step takes one, and a waiting request's clock advances.
Fairness == WF_vars(Tick) /\ \A r \in ReqIds : WF_vars(Step(r))

SpecLive == Init /\ [][Next]_vars /\ Fairness

\* ------------------------------------------- the store call that raises
\* On "redis" every store call is awaited on a connection, and the await can
\* raise (redis ConnectionError or TimeoutError, or CancelledError when the
\* request is abandoned).  From setnx or expire the exception leaves __aenter__,
\* so neither the body nor __aexit__ runs; from the body it passes through
\* __aexit__, which deletes the key; from delete it leaves __aexit__.
StoreRaises(r) ==
  /\ backend = "redis"
  /\ MayRun(r)
  /\ Active(r)
  /\ req' = [req EXCEPT ![r].pc = IF req[r].pc \in {"acquire", "expire", "release"}
                                  THEN "done" ELSE "release",
                        ![r].status = 500, ![r].detail = "store error",
                        ![r].waited = 0, ![r].bal = NoAmount,
                        ![r].remaining = NoAmount,
                        ![r].is_locked = IF req[r].pc = "release" THEN FALSE ELSE @]
  /\ cur' = 0
  /\ UNCHANGED <<backend, ledger, stats, lock, rest>>

NextFaults ==
  \/ \E r \in ReqIds : Start(r)
  \/ \E r \in ReqIds : Step(r)
  \/ \E r \in ReqIds : StoreRaises(r)
  \/ Tick

InitFaults == Init /\ backend = "redis"

SpecFaults == InitFaults /\ [][NextFaults]_vars

\* ------------------------------------------- the engine on MockRedis
\* startup_event found no Redis.  No handler is ever suspended, so no request
\* finds the lock taken, and incr raises before the kill flag of a zombie is set.
InitMock == Init /\ backend = "mock"

NextMock ==
  \/ \E r \in ReqIds : Start(r)
  \/ \E r \in ReqIds :
       \/ LockAcquire(r)
       \/ LockExpire(r)
       \/ GetBalance(r)
       \/ GetKilled(r)
       \/ IncrBreaches(r)
       \/ IncrZombies(r)
       \/ Deduct(r)
       \/ AddSpent(r)
       \/ KillGetBalance(r)
       \/ KillSetKilled(r)
       \/ Release(r)

SpecMock == InitMock /\ [][NextMock]_vars

\* ------------------------------------------------- a sequential caller
\* One caller heartbeats the seeded agent again and again, each heartbeat sent
\* after the answer to the one before (the budget-depletion scenario).
InitDeplete == Seeded /\ TwinInit /\ StatusInit /\ ClientInit /\ beats = 0 /\ beatCost \in BeatCosts

SendBeat ==
  /\ Arrive(1, "heartbeat", SeededAgent, beatCost, FALSE)
  /\ UNCHANGED rest

\* the answer is taken and the next heartbeat prepared
NextBeat ==
  /\ Done(1)
  /\ beats + 1 < MaxBeats
  /\ beats' = beats + 1
  /\ req' = [req EXCEPT ![1] = IdleReq]
  /\ UNCHANGED <<backend, ledger, stats, lock, cur, beatCost, twin, rd, cvars>>

\* (alone in the engine and never a zombie, the caller's requests take these steps)
NextDeplete ==
  \/ SendBeat
  \/ LockAcquire(1)
  \/ LockExpire(1)
  \/ GetBalance(1)
  \/ GetKilled(1)
  \/ IncrBreaches(1)
  \/ Deduct(1)
  \/ AddSpent(1)
  \/ Release(1)
  \/ NextBeat

SpecDeplete == InitDeplete /\ [][NextDeplete]_vars

\* ------------------------------------------------- GET /status/{agent_id}
\* get_status takes no lock.  Its three gets are three round trips on "redis",
\* with other requests' steps in between; on "mock" they run without a yield.
\* cur is -i while status call i runs between two yields.
MayRead(i) == cur \in {0, -i}
ReaderYield(i, done) == IF backend = "mock" /\ ~done THEN -i ELSE 0
Record(a) == <<balance[a], spent[a], killed[a]>>
Met(i) == IF rd[i].base = Record(rd[i].agent) THEN rd[i].base ELSE Torn

\* the same call made under DistributedLock, as heartbeat and kill_switch are
StatusGetBalanceLocking(i) ==
  /\ cur = 0
  /\ rd[i].pc = "idle" /\ \A j \in Readers : j < i => rd[j].pc # "idle"
  /\ \E a \in Agents :
       /\ ~lock[a].set
       /\ lock' = [lock EXCEPT ![a] = [set |-> TRUE, ttl |-> LOCK_TIMEOUT]]
       /\ rd' = [rd EXCEPT ![i] =
                  IF balance[a] = NoAmount
                  THEN [IdleReader EXCEPT !.pc = "done", !.agent = a, !.status = 200,
                          !.body = StatusBody(backend, NoAmount, NoAmount, Nil),
                          !.base = Record(a)]
                  ELSE [IdleReader EXCEPT !.pc = "get_spent", !.agent = a,
                          !.balance = balance[a], !.base = Record(a)]]
       /\ cur' = ReaderYield(i, balance[a] = NoAmount)
  /\ UNCHANGED <<backend, ledger, stats, req, beats, beatCost, twin, cvars>>

\* balance = get(agent:<id>:balance); if balance is None: return {}
StatusGetBalance(i) ==
  /\ cur = 0
  /\ rd[i].pc = "idle" /\ \A j \in Readers : j < i => rd[j].pc # "idle"
  /\ \E a \in Agents :
       /\ rd' = [rd EXCEPT ![i] =
                  IF balance[a] = NoAmount
                  THEN [IdleReader EXCEPT !.pc = "done", !.agent = a, !.status = 200,
                          !.body = StatusBody(backend, NoAmount, NoAmount, Nil),
                          !.base = Record(a)]
                  ELSE [IdleReader EXCEPT !.pc = "get_spent", !.agent = a,
                          !.balance = balance[a], !.base = Record(a)]]
       /\ cur' = ReaderYield(i, balance[a] = NoAmount)
  /\ UNCHANGED <<backend, ledger, stats, lock, req, beats, beatCost, twin, cvars>>

\* spent = get(agent:<id>:spent)
StatusGetSpent(i) ==
  /\ MayRead(i)
  /\ rd[i].pc = "get_spent"
  /\ rd' = [rd EXCEPT ![i].pc = "get_killed", ![i].spent = spent[rd[i].agent],
                      ![i].base = Met(i)]
  /\ cur' = ReaderYield(i, FALSE)
  /\ UNCHANGED <<backend, ledger, stats, lock, req, beats, beatCost, twin, cvars>>

\* killed = get(agent:<id>:killed); return {...}
StatusGetKilled(i) ==
  /\ MayRead(i)
  /\ rd[i].pc = "get_killed"
  /\ rd' = [rd EXCEPT ![i].pc = "done", ![i].status = 200,
                      ![i].body = StatusBody(backend, rd[i].balance, rd[i].spent,
                                             killed[rd[i].agent]),
                      ![i].base = Met(i)]
  /\ cur' = 0
  /\ UNCHANGED <<backend, ledger, stats, lock, req, beats, beatCost, twin, cvars>>

\* two heartbeat or kill_switch requests, the second sent when the first has been
\* answered, and the status calls, sent at any time
Writers == {1, 2}

StartAlone(r) == (\A q \in ReqIds : ~Active(q)) /\ Start(r)

NextStatus ==
  \/ \E r \in Writers : StartAlone(r)
  \/ \E r \in Writers : LockAcquire(r)
  \/ \E r \in Writers : LockExpire(r)
  \/ \E r \in Writers : GetBalance(r)
  \/ \E r \in Writers : GetKilled(r)
  \/ \E r \in Writers : IncrBreaches(r)
  \/ \E r \in Writers : IncrZombies(r)
  \/ \E r \in Writers : SetKilled(r)
  \/ \E r \in Writers : Deduct(r)
  \/ \E r \in Writers : AddSpent(r)
  \/ \E r \in Writers : KillGetBalance(r)
  \/ \E r \in Writers : KillSetKilled(r)
  \/ \E r \in Writers : Release(r)
  \/ \E i \in Readers : StatusGetBalance(i)
  \/ \E i \in Readers : StatusGetSpent(i)
  \/ \E i \in Readers : StatusGetKilled(i)

SpecStatus == Init /\ [][NextStatus]_vars

\* ------------------------------------------- requests for an unknown agent
\* heartbeat and kill_switch requests for an agent_id that has no record, in any
\* number up to MaxReq at a time, and status calls
StartUnknown(r) ==
  /\ NextArrival(r)
  /\ \/ Arrive(r, "heartbeat", UnknownAgent, 10, FALSE)
     \/ Arrive(r, "kill_switch", UnknownAgent, 0, FALSE)
  /\ UNCHANGED rest

\* GET /status/<that agent_id>
StatusUnknown(i) == StatusGetBalance(i) /\ rd'[i].agent = UnknownAgent

NextUnknown ==
  \/ \E r \in ReqIds : StartUnknown(r)
  \/ \E r \in ReqIds : LockAcquire(r)
  \/ \E r \in ReqIds : LockBusy(r)
  \/ \E r \in ReqIds : LockExpire(r)
  \/ \E r \in ReqIds : GetBalance(r)
  \/ \E r \in ReqIds : KillGetBalance(r)
  \/ \E r \in ReqIds : Release(r)
  \/ Tick
  \/ \E i \in Readers : StatusUnknown(i)

SpecUnknown == Init /\ [][NextUnknown]_vars

\* ------------------------------------------------- the two backends
\* The same request is served by an engine on Redis and by one on MockRedis,
\* each from the store its own earlier answers left.
ServeBoth(q) ==
  /\ twin.served < MaxServed
  /\ twin' = [store   |-> [b \in Backends |-> ServeOn(b, twin.store[b], q).store],
              request |-> q,
              answer  |-> [b \in Backends |->
                             [status |-> ServeOn(b, twin.store[b], q).status,
                              body   |-> ServeOn(b, twin.store[b], q).body]],
              served  |-> twin.served + 1]
  /\ UNCHANGED <<backend, ledger, stats, lock, req, cur, beats, beatCost, rd, cvars>>

NextTwin == \E q \in Requests : ServeBoth(q)

InitTwin == Init /\ backend = "redis"

SpecTwin == InitTwin /\ [][NextTwin]_vars

\* ======================================================================
\* The client: AiyodhaClient (aiyodha_sdk/wrapper.py)
\* ======================================================================
RECURSIVE SumSeq(_)
SumSeq(h) == IF h = <<>> THEN 0 ELSE Head(h) + SumSeq(Tail(h))

RECURSIVE SumSquares(_)
SumSquares(h) == IF h = <<>> THEN 0 ELSE Head(h) * Head(h) + SumSquares(Tail(h))

\* (mutant: the deviation compared with <= instead of <)
CheckZombieStatusLoose(h) ==
  /\ Len(h) >= MIN_SAMPLES
  /\ Len(h) * SumSquares(h) - SumSeq(h) * SumSeq(h)
       <= STD_DEV_LIMIT * STD_DEV_LIMIT * Len(h) * Len(h)

\* _check_zombie_status: at least 5 samples and a population standard deviation
\* below 5.0.  With n samples, variance < 25 is n*sum(x^2) - sum(x)^2 < 25*n^2.
CheckZombieStatus(h) ==
  /\ Len(h) >= MIN_SAMPLES
  /\ Len(h) * SumSquares(h) - SumSeq(h) * SumSeq(h)
       < STD_DEV_LIMIT * STD_DEV_LIMIT * Len(h) * Len(h)

\* _update_zombie_history: append, then pop(0) when over 10 entries
UpdateZombieHistory(h, x) ==
  IF Len(h) + 1 > MAX_HISTORY THEN Tail(Append(h, x)) ELSE Append(h, x)

\* while request_timestamps and request_timestamps[0] < now - 1.0: popleft()
RECURSIVE Evict(_)
Evict(ts) == IF ts # <<>> /\ Head(ts) > WINDOW_SECONDS THEN Evict(Tail(ts)) ELSE ts

\* (mutant: the limit compared with > instead of >=)
WindowOverFull(n) == n > MAX_LOCAL_RPS

\* len(request_timestamps) >= MAX_LOCAL_RPS
WindowFull(n) == n >= MAX_LOCAL_RPS

\* (mutant: only a 200 resets the failure counter)
ResetsFailuresOn200(status) == status = 200

\* (mutant: any response of the engine resets the counter, whatever its status)
ResetsFailuresOnResponse(status) == status >= 200

\* response.status_code in [200, 402]
ResetsFailures(status) == status \in {200, 402}

\* (mutant: the kill switch mirrors the latest response, so a later 200 clears it)
KillSwitchMirrors(k, status) == status = 402

\* if response.status_code == 402: local_kill_switch = True
KillSwitchAfter(k, status) == IF status = 402 THEN TRUE ELSE k

\* (mutant: a failure counted while the circuit is open leaves its cooldown alone)
TripsWhenClosed(f) == f >= FAILURE_THRESHOLD /\ circuit_tripped_until = 0

\* (mutant: the circuit is opened only by the failure that reaches the threshold)
TripsAtThreshold(f) == f = FAILURE_THRESHOLD

\* consecutive_failures >= FAILURE_THRESHOLD
Trips(f) == f >= FAILURE_THRESHOLD

\* (mutant: an exception no except clause names leaves the task and reaches the caller)
CallerSeesUncaught(o, l) == IF o = "Exception" THEN "Exception" ELSE l

\* what the rest of create() sees of a heartbeat task's outcome: nothing, every
\* exception is caught inside _send_heartbeat and the task is never awaited
CallerSees(o, l) == l

Cap(n) == IF n > COOLDOWN_SECONDS THEN COOLDOWN_SECONDS + 1 ELSE n

\* (mutant: the kill switch looked at before the circuit)
CreateKillSwitchFirst(p) ==
  /\ IF local_kill_switch
     THEN /\ last' = "BudgetExceededError: killed"
          /\ UNCHANGED <<request_timestamps, inflight, pending, admitted_ago>>
     ELSE IF circuit_tripped_until > 0
     THEN /\ last' = "CircuitBreakerTrippedError"
          /\ UNCHANGED <<request_timestamps, inflight, pending, admitted_ago>>
     ELSE IF WindowFull(Len(Evict(request_timestamps)))
     THEN /\ last' = "BudgetExceededError: rate limit"
          /\ request_timestamps' = Evict(request_timestamps)
          /\ UNCHANGED <<inflight, pending, admitted_ago>>
     ELSE /\ inflight[TRUE] + inflight[FALSE] < MaxInflight
          /\ pending[p] < MaxPending
          /\ last' = "admitted"
          /\ request_timestamps' = Append(Evict(request_timestamps), 0)
          /\ inflight' = [inflight EXCEPT ![CheckZombieStatus(response_history)] = @ + 1]
          /\ pending' = [pending EXCEPT ![p] = @ + 1]
          /\ admitted_ago' = <<admitted_ago[1] + 1, admitted_ago[2]>>
  /\ UNCHANGED <<local_kill_switch, consecutive_failures, circuit_tripped_until,
                 response_history, tripped_ago, failures_since_ok, svars, zvars>>
  /\ answered' = 0 /\ reopened' = FALSE

\* create(), up to the first await: the three admission checks in order, then the
\* timestamp, the zombie check and the heartbeat task
Create(p) ==
  /\ IF circuit_tripped_until > 0
     THEN /\ last' = "CircuitBreakerTrippedError"
          /\ UNCHANGED <<request_timestamps, inflight, pending, admitted_ago>>
     ELSE IF local_kill_switch
     THEN /\ last' = "BudgetExceededError: killed"
          /\ UNCHANGED <<request_timestamps, inflight, pending, admitted_ago>>
     ELSE IF WindowFull(Len(Evict(request_timestamps)))
     THEN /\ last' = "BudgetExceededError: rate limit"
          /\ request_timestamps' = Evict(request_timestamps)
          /\ UNCHANGED <<inflight, pending, admitted_ago>>
     ELSE /\ inflight[TRUE] + inflight[FALSE] < MaxInflight
          /\ pending[p] < MaxPending
          /\ last' = "admitted"
          /\ request_timestamps' = Append(Evict(request_timestamps), 0)
          /\ inflight' = [inflight EXCEPT ![CheckZombieStatus(response_history)] = @ + 1]
          /\ pending' = [pending EXCEPT ![p] = @ + 1]
          /\ admitted_ago' = <<admitted_ago[1] + 1, admitted_ago[2]>>
  /\ UNCHANGED <<local_kill_switch, consecutive_failures, circuit_tripped_until,
                 response_history, tripped_ago, failures_since_ok, svars, zvars>>
  /\ answered' = 0 /\ reopened' = FALSE

\* create(), after await _mock_llm_call: "Processed: <prompt>" is recorded and returned
ReturnCall(p) ==
  /\ pending[p] > 0
  /\ pending' = [pending EXCEPT ![p] = @ - 1]
  /\ response_history' = UpdateZombieHistory(response_history, PREFIX_LEN + p)
  /\ UNCHANGED <<local_kill_switch, request_timestamps, consecutive_failures,
                 circuit_tripped_until, inflight, last, admitted_ago, tripped_ago, failures_since_ok, svars, zvars>>
  /\ answered' = 0 /\ reopened' = FALSE

\* _send_heartbeat on an HTTP response: what it does to the client
HeartbeatReceived(z, status) ==
  /\ inflight[z] > 0
  /\ inflight' = [inflight EXCEPT ![z] = @ - 1]
  /\ consecutive_failures' = IF ResetsFailures(status) THEN 0 ELSE consecutive_failures
  /\ local_kill_switch' = KillSwitchAfter(local_kill_switch, status)
  /\ last' = CallerSees("Response", last)
  /\ failures_since_ok' = IF status \in {200, 402} THEN 0 ELSE failures_since_ok
  /\ UNCHANGED <<request_timestamps, circuit_tripped_until, response_history, pending,
                 admitted_ago, tripped_ago, zvars>>
  /\ reopened' = FALSE

\* _send_heartbeat receives an HTTP response from whatever server answers
HeartbeatResponse(z, status) ==
  HeartbeatReceived(z, status) /\ answered' = 0 /\ UNCHANGED svars

\* the same, the status of the response kept for the properties
HeartbeatAnswer(z, status) ==
  HeartbeatReceived(z, status) /\ answered' = status /\ UNCHANGED svars

\* _send_heartbeat catches httpx.RequestError / httpx.HTTPError
HeartbeatFailure(z) ==
  /\ inflight[z] > 0
  /\ consecutive_failures < MaxFailures
  /\ inflight' = [inflight EXCEPT ![z] = @ - 1]
  /\ consecutive_failures' = consecutive_failures + 1
  /\ circuit_tripped_until' = IF Trips(consecutive_failures + 1)
                              THEN COOLDOWN_SECONDS ELSE circuit_tripped_until
  /\ last' = CallerSees("RequestError", last)
  /\ answered' = 0
  /\ reopened' = (tripped_ago # Never /\ circuit_tripped_until = 0
                     /\ failures_since_ok + 1 >= FAILURE_THRESHOLD)
  /\ failures_since_ok' = failures_since_ok + 1
  /\ tripped_ago' = IF failures_since_ok + 1 >= FAILURE_THRESHOLD THEN 0 ELSE tripped_ago
  /\ UNCHANGED <<local_kill_switch, request_timestamps, response_history, pending,
                 admitted_ago, svars, zvars>>

\* _send_heartbeat catches any other Exception and logs it
HeartbeatException(z) ==
  /\ inflight[z] > 0
  /\ inflight' = [inflight EXCEPT ![z] = @ - 1]
  /\ last' = CallerSees("Exception", last)
  /\ answered' = 0 /\ reopened' = FALSE
  /\ UNCHANGED <<local_kill_switch, request_timestamps, consecutive_failures,
                 circuit_tripped_until, response_history, pending, admitted_ago,
                 tripped_ago, failures_since_ok, svars, zvars>>

\* a second passes on the client
ClientTick ==
  /\ request_timestamps' = [i \in 1..Len(request_timestamps) |->
                              IF request_timestamps[i] > WINDOW_SECONDS
                              THEN request_timestamps[i] ELSE request_timestamps[i] + 1]
  /\ circuit_tripped_until' = IF circuit_tripped_until > 0
                              THEN circuit_tripped_until - 1 ELSE 0
  /\ admitted_ago' = <<0, admitted_ago[1]>>
  /\ tripped_ago' = IF tripped_ago = Never THEN Never ELSE Cap(tripped_ago + 1)
  /\ UNCHANGED <<local_kill_switch, consecutive_failures, response_history, inflight,
                 pending, last, failures_since_ok, svars, zvars>>
  /\ answered' = 0 /\ reopened' = FALSE

NextClient ==
  \/ \E p \in PromptLens : Create(p)
  \/ \E p \in PromptLens : ReturnCall(p)
  \/ \E z \in BOOLEAN, status \in Statuses : HeartbeatResponse(z, status)
  \/ \E z \in BOOLEAN : HeartbeatFailure(z)
  \/ \E z \in BOOLEAN : HeartbeatException(z)
  \/ ClientTick

\* the engine the heartbeats go to is any server at policy_engine_url: its
\* answers are the Outcomes, and its own state plays no part here
InitClient == Init /\ backend = "redis"

SpecClient == InitClient /\ [][NextClient]_vars

\* the same client, the status of every response kept
NextAnswers ==
  \/ \E p \in PromptLens : Create(p)
  \/ \E p \in PromptLens : ReturnCall(p)
  \/ \E z \in BOOLEAN, status \in Statuses : HeartbeatAnswer(z, status)
  \/ \E z \in BOOLEAN : HeartbeatFailure(z)
  \/ \E z \in BOOLEAN : HeartbeatException(z)
  \/ ClientTick

SpecAnswers == InitClient /\ [][NextAnswers]_vars

\* ------------------------------------------- the client and the engine
\* One client for the seeded agent and a reachable engine that serves nobody
\* else.  The client's heartbeats reach the engine one at a time (each waits for
\* the agent's lock), in any order, and each is served from its first store call
\* to its response before the client's task resumes.
HeartbeatCost == 5

EngineStore ==
  [balance |-> balance, spent |-> spent, killed |-> killed,
   breaches |-> breaches, zombies |-> zombies]

\* client.post(.../heartbeat, {agent_id, cost, model, is_zombie}) and its response
HeartbeatRoundTrip(z) ==
  /\ inflight[z] > 0
  /\ balance' = HeartbeatOn(backend, EngineStore, SeededAgent, HeartbeatCost, z).store.balance
  /\ spent' = HeartbeatOn(backend, EngineStore, SeededAgent, HeartbeatCost, z).store.spent
  /\ killed' = HeartbeatOn(backend, EngineStore, SeededAgent, HeartbeatCost, z).store.killed
  /\ breaches' = HeartbeatOn(backend, EngineStore, SeededAgent, HeartbeatCost, z).store.breaches
  /\ zombies' = HeartbeatOn(backend, EngineStore, SeededAgent, HeartbeatCost, z).store.zombies
  /\ HeartbeatReceived(z, HeartbeatOn(backend, EngineStore, SeededAgent, HeartbeatCost, z).status)
  /\ UNCHANGED <<backend, lock, req, cur, beats, beatCost, twin, rd>>
  /\ answered' = 0

NextShutdown ==
  \/ \E p \in PromptLens : Create(p)
  \/ \E p \in PromptLens : ReturnCall(p)
  \/ \E z \in BOOLEAN : HeartbeatRoundTrip(z)
  \/ ClientTick

SpecShutdown == Init /\ [][NextShutdown]_vars

\* ------------------------------------------- the zombie detector alone
\* Both methods are synchronous: create() calls each between two awaits, so
\* whatever the interleaving of concurrent create() calls, the detector sees a
\* sequence of whole calls.  The prompts are "Hello world" and one ten
\* characters longer.
ZombieLens == {11, 21}

\* self._update_zombie_history(response_text), len(response_text) = 11 + len(prompt)
UpdateZombieHistoryCall(p) ==
  /\ Len(completed) < MaxCompleted
  /\ response_history' = UpdateZombieHistory(response_history, PREFIX_LEN + p)
  /\ completed' = Append(completed, PREFIX_LEN + p)
  /\ verdict' = "none"
  /\ UNCHANGED <<local_kill_switch, request_timestamps, consecutive_failures,
                 circuit_tripped_until, inflight, pending, last, admitted_ago,
                 tripped_ago, failures_since_ok, svars>>
  /\ answered' = 0 /\ reopened' = FALSE

\* is_zombie = self._check_zombie_status()
CheckZombieStatusCall ==
  /\ verdict = "none"
  /\ verdict' = IF CheckZombieStatus(response_history) THEN "true" ELSE "false"
  /\ UNCHANGED <<local_kill_switch, request_timestamps, consecutive_failures,
                 circuit_tripped_until, response_history, inflight, pending, last,
                 admitted_ago, tripped_ago, failures_since_ok, completed, svars>>
  /\ answered' = 0 /\ reopened' = FALSE

NextZombie ==
  \/ \E p \in ZombieLens : UpdateZombieHistoryCall(p)
  \/ CheckZombieStatusCall

SpecZombie == InitClient /\ [][NextZombie]_vars

\* ======================================================================
\* Properties of the Policy Engine
\* ======================================================================
IsBeat(r) == req[r].kind = "heartbeat" /\ req[r].agent = SeededAgent /\ ~req[r].zombie

\* between a successful setnx and the end of __aexit__
Holding(r) ==
  req[r].pc \in {"expire", "get_balance", "get_killed", "breach_killed", "breach_budget",
                 "incr_zombies", "set_killed", "deduct", "add_spent",
                 "kill_get_balance", "kill_set_killed", "release"}

\* C1: N concurrent heartbeats of cost c for the seeded, never killed agent, with
\* B >= N*c: once all have completed, balance is exactly B - N*c, spent exactly
\* N*c, and every one of them returned ok.
C1_NoLostUpdates ==
  \A c \in Costs :
    ( /\ \A r \in ReqIds : Done(r) /\ IsBeat(r) /\ req[r].cost = c
      /\ SeedBalance >= MaxReq * c )
    => /\ balance[SeededAgent] = Amount(SeedBalance - MaxReq * c)
       /\ spent[SeededAgent] = Amount(MaxReq * c)
       /\ \A r \in ReqIds : req[r].status = 200

\* C2: at most one request per agent is between its successful lock acquisition
\* and its release; requests for different agents never wait for each other (a
\* request at the lock whose own agent's key is free can take it, whoever holds
\* the other agent's key).
C2_MutualExclusion ==
  /\ \A r, q \in ReqIds :
       (r # q /\ Holding(r) /\ Holding(q)) => req[r].agent # req[q].agent
  /\ \A r \in ReqIds :
       (req[r].pc = "acquire" /\ \A q \in ReqIds : Holding(q) => req[q].agent # req[r].agent)
       => ~lock[req[r].agent].set

\* C3: once killed is "true" it stays "true", and every heartbeat that arrives
\* afterwards is answered 402 (killed), adds exactly 1 to the breaches counter
\* and changes neither balance nor spent.
C3_KillPropagation ==
  /\ [](\A r \in ReqIds :
          (Done(r) /\ req[r].kind = "heartbeat" /\ req[r].sawKilled)
          => req[r].status = 402 /\ req[r].detail = "killed")
  /\ [][ /\ \A a \in Agents : killed[a] = "true" => killed'[a] = "true"
         /\ \A r \in ReqIds :
              (req[r].kind = "heartbeat" /\ req[r].sawKilled /\ req'[r] # req[r]
               /\ req'[r].waited = req[r].waited)
              => /\ balance' = balance /\ spent' = spent
                 /\ breaches' = IF req[r].pc = "breach_killed"
                                THEN breaches + 1 ELSE breaches ]_vars

\* C4: a request that took the lock (its setnx succeeded) deletes the lock key
\* exactly once on its way out, whatever the exit (200, 402, 404, an exception);
\* a request answered 503 never took it and never deletes it; when no request
\* is in the engine no lock key is left in the store.
C4_ScopedRelease ==
  /\ \A r \in ReqIds :
       /\ req[r].deletes <= 1
       /\ Done(r) => req[r].deletes = (IF req[r].acquired THEN 1 ELSE 0)
       /\ (Done(r) /\ req[r].status = 503) => ~req[r].acquired
       /\ req[r].deletes = 1 => Done(r)
  /\ (\A r \in ReqIds : ~Active(r)) => \A a \in Agents : ~lock[a].set

\* one request was refused at the lock, the other left through an exit of the
\* body and deleted the key
C4_Witness ==
  \E r, q \in ReqIds :
    /\ Done(r) /\ req[r].status = 503 /\ req[r].deletes = 0
    /\ Done(q) /\ req[q].status \in {402, 404} /\ req[q].deletes = 1
    /\ \A a \in Agents : ~lock[a].set

\* the exception exit: incr raised inside the body and the key was deleted
C4_WitnessException ==
  \E r \in ReqIds : Done(r) /\ req[r].status = 500 /\ req[r].deletes = 1

\* C10: seeded with 100.0 and heartbeated sequentially at cost c with 100.0 = k*c
\* (0.05: k = 2000), exactly k heartbeats succeed and leave balance 0.0; the one
\* after them is answered 402 (insufficient budget), adds exactly 1 to breaches
\* and leaves balance and spent as they were.
C10_BudgetDepletion ==
  LET k == SeedBalance \div beatCost
  IN  Done(1) =>
        /\ beats < k => req[1].status = 200
        /\ beats + 1 = k => balance[SeededAgent] = Amount(0)
        /\ beats = k => /\ req[1].status = 402
                        /\ req[1].detail = "insufficient_budget"
                        /\ breaches = 1
                        /\ balance[SeededAgent] = Amount(0)
                        /\ spent[SeededAgent] = Amount(SeedBalance)

\* the same heartbeats at the SDK's cost 0.05 alone: the 2000th leaves 0.0
C10_ExactZero ==
  (beatCost = 5 /\ Done(1) /\ beats + 1 = 2000) => balance[SeededAgent] = Amount(0)

\* ======================================================================
\* Properties of the client
\* ======================================================================
\* admitted timestamps not older than the window
InWindow == Cardinality({i \in 1..Len(request_timestamps) :
                           request_timestamps[i] <= WINDOW_SECONDS})

Dispatched == inflight[TRUE] + inflight[FALSE]

\* a heartbeat task ends, in any of the three ways
HeartbeatEnds ==
  \E z \in BOOLEAN :
    \/ \E status \in Statuses : HeartbeatResponse(z, status)
    \/ HeartbeatFailure(z)
    \/ HeartbeatException(z)

\* C5: with the circuit closed and the kill switch off, create() admits a call
\* only if fewer than 5 admitted timestamps lie within the last second; with 5
\* there it raises BudgetExceededError and adds no timestamp; with fewer (the
\* oldest having slid out) it admits again; in any interleaving no more than 5
\* calls are admitted within a 1-second window.
C5_RateLimit ==
  /\ [](admitted_ago[1] + admitted_ago[2] <= MAX_LOCAL_RPS)
  /\ [](InWindow = admitted_ago[1] + admitted_ago[2])
  /\ [][ \A p \in PromptLens :
           (Create(p) /\ circuit_tripped_until = 0 /\ ~local_kill_switch)
           => IF InWindow >= MAX_LOCAL_RPS
              THEN /\ last' = "BudgetExceededError: rate limit"
                   /\ Len(request_timestamps') = InWindow
                   /\ admitted_ago' = admitted_ago
                   /\ Dispatched' = Dispatched /\ pending' = pending
              ELSE /\ last' = "admitted"
                   /\ Len(request_timestamps') = InWindow + 1
                   /\ Dispatched' = Dispatched + 1 ]_vars

\* the 6th attempt, 5 admissions lying within the last second, was refused
C5_Witness ==
  /\ last = "BudgetExceededError: rate limit"
  /\ admitted_ago[1] + admitted_ago[2] = MAX_LOCAL_RPS
  /\ Len(request_timestamps) = MAX_LOCAL_RPS
  /\ circuit_tripped_until = 0 /\ ~local_kill_switch

\* what create() does at the circuit check, whichever reading of the cooldown
CircuitCheck ==
  \A p \in PromptLens :
    Create(p) =>
      IF circuit_tripped_until > 0
      THEN /\ last' = "CircuitBreakerTrippedError"
           /\ Dispatched' = Dispatched /\ pending' = pending
           /\ request_timestamps' = request_timestamps
      ELSE /\ last' # "CircuitBreakerTrippedError"
           /\ (~local_kill_switch /\ InWindow < MAX_LOCAL_RPS)
              => Dispatched' = Dispatched + 1

\* C6, as stated: after 3 consecutive transport failures the circuit opens;
\* every create() raises CircuitBreakerTrippedError until 60 seconds have passed
\* since the circuit opened, and after those 60 seconds create() passes the
\* circuit check and dispatches a heartbeat again.  (The circuit goes from
\* closed to open with 60 seconds to run, and while it is open the time left
\* only runs down, so that it closes 60 seconds after it opened.)
C6_SixtySecondsSinceOpened ==
  /\ [](failures_since_ok >= FAILURE_THRESHOLD => tripped_ago # Never)
  /\ [][ /\ (circuit_tripped_until = 0 /\ circuit_tripped_until' > 0)
              => circuit_tripped_until' = COOLDOWN_SECONDS
         /\ circuit_tripped_until > 0
              => circuit_tripped_until' <= circuit_tripped_until ]_vars
  /\ [][CircuitCheck]_vars

\* C6, amended: the circuit opens at the 3rd consecutive transport failure, and
\* every further failure with no 200/402 before it starts the 60 seconds anew;
\* create() raises CircuitBreakerTrippedError until 60 seconds have passed since
\* the latest such failure; after that create() passes the circuit check and,
\* the kill switch off and the window not full, dispatches a heartbeat again.
C6_CircuitBreaker ==
  /\ [](failures_since_ok >= FAILURE_THRESHOLD => tripped_ago # Never)
  /\ [](circuit_tripped_until =
          IF tripped_ago = Never \/ tripped_ago >= COOLDOWN_SECONDS
          THEN 0 ELSE COOLDOWN_SECONDS - tripped_ago)
  /\ [][CircuitCheck]_vars

\* a failure counted during the cooldown, a tick after the circuit opened,
\* started the 60 seconds anew, and create() was refused after it
C6_Witness ==
  /\ consecutive_failures = FAILURE_THRESHOLD + 1
  /\ circuit_tripped_until = COOLDOWN_SECONDS - 1
  /\ request_timestamps # <<>> /\ request_timestamps[1] > WINDOW_SECONDS
  /\ last = "CircuitBreakerTrippedError"

\* the cooldown over, create() dispatched a heartbeat again
C6_WitnessReclosed ==
  /\ tripped_ago = COOLDOWN_SECONDS
  /\ circuit_tripped_until = 0
  /\ last = "admitted" /\ Dispatched = 1 /\ admitted_ago[1] = 1

\* C7: every 200 or 402 completion sets consecutive_failures to 0, the counter
\* is the number of transport failures since the last 200/402 in any order of
\* completion, and the cooldown is set only by a failure that makes that number
\* 3 or more.
C7_ConsecutiveFailures ==
  /\ [](consecutive_failures = failures_since_ok)
  /\ [](failures_since_ok < FAILURE_THRESHOLD /\ tripped_ago = Never
          => circuit_tripped_until = 0)
  /\ [][ /\ \A z \in BOOLEAN, status \in {200, 402} :
              HeartbeatResponse(z, status) => consecutive_failures' = 0
         /\ circuit_tripped_until' > circuit_tripped_until
              => failures_since_ok' >= FAILURE_THRESHOLD ]_vars

\* the circuit had opened; a 200/402 came, and the two failures after it left
\* the circuit closed
C7_Witness ==
  /\ consecutive_failures = 2
  /\ tripped_ago > COOLDOWN_SECONDS
  /\ circuit_tripped_until = 0

\* C8: a 402 completion sets the kill switch; once set it is never cleared;
\* from then on create() raises without dispatching (BudgetExceededError when the
\* circuit is closed) and adds no heartbeat.
C8_KillSwitchSticky ==
  [][ /\ local_kill_switch => local_kill_switch'
      /\ \A z \in BOOLEAN : HeartbeatResponse(z, 402) => local_kill_switch'
      /\ local_kill_switch => Dispatched' <= Dispatched
      /\ \A p \in PromptLens :
           (Create(p) /\ local_kill_switch)
           => /\ last' = IF circuit_tripped_until > 0
                         THEN "CircuitBreakerTrippedError"
                         ELSE "BudgetExceededError: killed"
              /\ inflight' = inflight /\ pending' = pending
              /\ request_timestamps' = request_timestamps ]_vars

\* killed by a 402, every heartbeat task ended since, and create() was refused
\* by the kill switch
C8_Witness ==
  /\ local_kill_switch
  /\ last = "BudgetExceededError: killed"
  /\ Dispatched = 0
  /\ circuit_tripped_until = 0

\* C9: however a heartbeat task ends, the step changes nothing the caller of
\* create() sees (the outcome of the admission, the calls awaiting the external
\* call, the recorded responses, the window); it changes at most
\* consecutive_failures, circuit_tripped_until and local_kill_switch; and an
\* admitted call can return whether its heartbeat has ended or not.
C9_HeartbeatDetached ==
  /\ [](\A p \in PromptLens : pending[p] > 0 => ENABLED ReturnCall(p))
  /\ [][ HeartbeatEnds
         => /\ last' = last /\ pending' = pending
            /\ response_history' = response_history
            /\ request_timestamps' = request_timestamps ]_vars

\* the call was admitted, its heartbeat failed at transport level, and the call
\* still awaits the external call, its admission untouched
C9_Witness ==
  /\ last = "admitted"
  /\ pending[11] = 1
  /\ Dispatched = 0
  /\ consecutive_failures = 1
  /\ response_history # <<>>

\* ======================================================================
\* Properties of the two backends
\* ======================================================================
\* C11: served the same sequence of heartbeat, kill_switch, status and resilience
\* requests, the engine on MockRedis gives the same answers (status code and
\* body) and holds the same ledger and counter values as the engine on Redis.
C11_BackendEquivalence ==
  /\ twin.answer["mock"] = twin.answer["redis"]
  /\ LedgerOf("mock", twin.store["mock"]) = LedgerOf("redis", twin.store["redis"])

\* the two engines answered a first accepted heartbeat alike
C11_Witness ==
  /\ twin.served = 1
  /\ twin.answer["mock"].status = 200 /\ twin.answer["redis"].status = 200
  /\ twin.answer["mock"].body.detail = "ok"
  /\ twin.answer["mock"] = twin.answer["redis"]

\* the same with no counter to increment and amounts that binary64 holds
\* exactly: where the two engines still differ
C11_FloatDrift ==
  (twin.answer["mock"].status = 200 /\ twin.answer["redis"].status = 200)
  => twin.answer["mock"] = twin.answer["redis"]

\* ======================================================================
\* Properties of GET /status/{agent_id}
\* ======================================================================
StatusStep == rd' # rd
Answered(i) == rd[i].pc = "done"

\* two answered status calls for the same agent that met the same record at
\* every one of their gets
SameRecord(i, j) ==
  /\ Answered(i) /\ Answered(j)
  /\ rd[i].agent = rd[j].agent
  /\ rd[i].base # Torn /\ rd[i].base = rd[j].base

\* C12: a step of a status call changes no ledger key (balance, spent, killed),
\* no counter and no lock key, and two status calls for the same agent with no
\* heartbeat or kill_switch write between the first get of one and the last get
\* of the other return the same response.
C12_StatusPure ==
  /\ [][StatusStep => UNCHANGED <<ledger, stats, lock>>]_vars
  /\ [](\A i, j \in Readers :
          SameRecord(i, j) => rd[i].status = rd[j].status /\ rd[i].body = rd[j].body)

\* two status calls for the seeded agent were answered after a heartbeat had
\* been deducted, both having met the same record
C12_Witness ==
  /\ SameRecord(1, 2)
  /\ rd[1].agent = SeededAgent
  /\ spent[SeededAgent] # Amount(SeedSpent)
  /\ rd[1].base = Record(SeededAgent)

\* two status calls for the same agent return different responses when a
\* deduction falls between their gets
C12_WitnessTorn ==
  /\ Answered(1) /\ Answered(2)
  /\ rd[1].agent = SeededAgent /\ rd[2].agent = SeededAgent
  /\ rd[1].base = Torn
  /\ rd[1].body # rd[2].body

\* ======================================================================
\* Properties of the ledger
\* ======================================================================
\* balance + spent as get_status adds them
Budget(a) == SignedAdd(SignedOf(backend, balance[a]), SignedOf(backend, spent[a]))
InitialBudget == [neg |-> FALSE, mag |-> PyFloat(SeedBalance)]
BeatHolds(a) ==
  \E r \in ReqIds : req[r].kind = "heartbeat" /\ req[r].agent = a /\ Holding(r)

\* C13: for the seeded agent, never topped up, balance + spent equals the seeded
\* budget in every state in which no heartbeat for the agent holds the lock,
\* whatever heartbeats and kills came before; and a status call that read the
\* record between heartbeats reports that budget.
C13_LedgerConservation ==
  /\ ~BeatHolds(SeededAgent) => Budget(SeededAgent) = InitialBudget
  /\ \A i \in Readers :
       ( /\ Answered(i) /\ rd[i].agent = SeededAgent
         /\ rd[i].base = Record(SeededAgent) /\ ~BeatHolds(SeededAgent) )
       => rd[i].body.floats[1] = InitialBudget

\* a heartbeat has been deducted and answered, and the sum is the seeded budget
C13_Witness ==
  /\ ~BeatHolds(SeededAgent)
  /\ \E r \in ReqIds : Done(r) /\ IsBeat(r) /\ req[r].status = 200
  /\ Budget(SeededAgent) = InitialBudget

\* the seeded agent's record is as startup_event wrote it
RecordAsSeeded ==
  /\ balance[SeededAgent] = Amount(SeedBalance)
  /\ spent[SeededAgent] = Amount(SeedSpent)
  /\ killed[SeededAgent] = "false"

\* request r is the only one the engine has received, a heartbeat for the seeded
\* agent that ended in an exception raised by a store call
OnlyFailedBeat(r) ==
  /\ Done(r) /\ req[r].kind = "heartbeat" /\ req[r].agent = SeededAgent
  /\ req[r].status = 500
  /\ \A q \in ReqIds \ {r} : req[q].pc = "idle"

\* C14: when a store operation of a heartbeat raises an unexpected exception,
\* between the balance decrement and the spent increment or in a counter
\* increment included, the agent's balance, spent and killed are after the
\* request what they were before it.
C14_NoPartialDeduction ==
  \A r \in ReqIds : OnlyFailedBeat(r) => RecordAsSeeded

\* a heartbeat whose counter increment or earlier store call raised: the record
\* is untouched
C14_Witness ==
  \E r \in ReqIds : OnlyFailedBeat(r) /\ req[r].acquired /\ RecordAsSeeded

\* ======================================================================
\* Properties of the lock acquisition
\* ======================================================================
Received(r) == req[r].pc # "idle"

\* the request was refused at the lock: it never held the key, so it never
\* reached a get, set, incr or incrbyfloat of its handler's body
RefusedAtLock(r) == ~req[r].acquired /\ req[r].deletes = 0 /\ req[r].bal = NoAmount

\* C15: a heartbeat or kill_switch request that fails with 503 has neither read
\* nor written a ledger key or counter, the step that answers 503 changes none,
\* every request that completes does so with 200, 402, 404 or 503, and under
\* fair scheduling every request received eventually completes.
C15_BoundedAcquisition ==
  /\ [](\A r \in ReqIds : (Done(r) /\ req[r].status = 503) => RefusedAtLock(r))
  /\ [][\A r \in ReqIds : (~Done(r) /\ Done(r)' /\ req'[r].status = 503)
                          => UNCHANGED <<ledger, stats, lock>>]_vars
  /\ [](\A r \in ReqIds : Done(r) => req[r].status \in {200, 402, 404, 503})
  /\ \A r \in ReqIds : Received(r) ~> Done(r)

\* a request waited out the timeout and was answered 503
C15_Witness ==
  \E r \in ReqIds : Done(r) /\ req[r].status = 503 /\ RefusedAtLock(r)

\* the part of C15 that does not depend on the status codes
C15_Terminates ==
  /\ [](\A r \in ReqIds : (Done(r) /\ req[r].status = 503) => RefusedAtLock(r))
  /\ \A r \in ReqIds : Received(r) ~> Done(r)

\* ======================================================================
\* Properties of the zombie detector
\* ======================================================================
\* the last n entries of a sequence
LastN(q, n) == IF Len(q) <= n THEN q ELSE SubSeq(q, Len(q) - n + 1, Len(q))

\* the population variance of h is below 25: with n samples of sum S,
\* sum((x - S/n)^2) / n < 25 is sum((n*x - S)^2) < 25 * n^3
RECURSIVE SquaredDeviations(_, _, _)
SquaredDeviations(h, n, sum) ==
  IF h = <<>> THEN 0
  ELSE (n * Head(h) - sum) * (n * Head(h) - sum) + SquaredDeviations(Tail(h), n, sum)

DeviationBelowLimit(h) ==
  SquaredDeviations(h, Len(h), SumSeq(h)) < 25 * Len(h) * Len(h) * Len(h)

AllSame(h) == \A i, j \in 1..Len(h) : h[i] = h[j]

C16_WitnessBoundary ==
  /\ Len(response_history) = 10
  /\ SquaredDeviations(response_history, 10, SumSeq(response_history)) = 25 * 1000
  /\ verdict = "false"

\* ======================================================================
\* Properties of the zombie step
\* ======================================================================
\* the request just served on backend b was a heartbeat with is_zombie = true for
\* an agent that had a record and was not killed
ZombieBeatServed(b) ==
  /\ twin'.request[1] = "heartbeat" /\ twin'.request[4]
  /\ twin.store[b].balance[twin'.request[2]] # NoAmount
  /\ twin.store[b].killed[twin'.request[2]] # "true"

\* C17: a heartbeat with is_zombie = true for an existing agent whose killed flag
\* is not true adds exactly 1 to the zombies counter, sets killed to "true", is
\* answered 402, and changes neither balance, spent nor the breaches counter,
\* whether or not balance < cost.
C17_ZombieStep ==
  [][\A b \in Backends :
       ZombieBeatServed(b) =>
         /\ twin'.store[b].zombies = twin.store[b].zombies + 1
         /\ twin'.store[b].killed[twin'.request[2]] = "true"
         /\ twin'.answer[b].status = 402
         /\ twin'.answer[b].body.detail = "Payment Required: Zombie Agent Detected"
         /\ twin'.store[b].balance = twin.store[b].balance
         /\ twin'.store[b].spent = twin.store[b].spent
         /\ twin'.store[b].breaches = twin.store[b].breaches]_vars

\* on Redis a zombie heartbeat whose cost exceeds the balance was answered 402
\* as a zombie, not as a breach
C17_Witness ==
  /\ twin.request = <<"heartbeat", SeededAgent, 6000, TRUE>>
  /\ twin.store["redis"].balance[SeededAgent] = <<4000>>
  /\ twin.store["redis"].zombies = 1 /\ twin.store["redis"].breaches = 0
  /\ twin.store["redis"].killed[SeededAgent] = "true"
  /\ twin.answer["redis"].status = 402

\* ======================================================================
\* Properties of the client and the engine together
\* ======================================================================
InFlight == inflight[TRUE] + inflight[FALSE]
Admission == InFlight' = InFlight + 1
ZombieBeatCompletes == inflight'[TRUE] = inflight[TRUE] - 1

\* C18: for a client whose responses all have the same length, against a
\* reachable engine holding its agent's record: once response_history holds 5
\* such lengths the next admitted create() dispatches a heartbeat with is_zombie
\* = true; when that heartbeat completes the server has marked the agent killed
\* and the client's kill switch is set; and from then on no create() is admitted:
\* each is blocked with BudgetExceededError.
C18_ZombieShutdown ==
  /\ [][(Admission /\ Len(response_history) >= 5) => inflight'[TRUE] = inflight[TRUE] + 1]_vars
  /\ [][ZombieBeatCompletes => (killed'[SeededAgent] = "true" /\ local_kill_switch')]_vars
  /\ [][local_kill_switch =>
          /\ local_kill_switch'
          /\ ~Admission
          /\ last' \in {last, "BudgetExceededError: killed"}]_vars

\* on Redis the zombie heartbeat was answered 402 and a later create() was
\* blocked by the kill switch
C18_Witness ==
  /\ backend = "redis"
  /\ zombies = 1 /\ killed[SeededAgent] = "true"
  /\ local_kill_switch
  /\ last = "BudgetExceededError: killed"
  /\ InFlight = 0

\* ======================================================================
\* Properties of the admission checks
\* ======================================================================
CreateStep == \E p \in PromptLens : Create(p)

\* the timestamps of the last second
Recent == {i \in 1..Len(request_timestamps) : request_timestamps[i] <= 1}

\* a is what is left of b after dropping entries from its front
IsSuffix(a, b) == \E k \in 0..Len(b) : a = SubSeq(b, k + 1, Len(b))

\* C19: create() looks at the circuit first, the kill switch second and the rate
\* limit third: with the circuit open it raises CircuitBreakerTrippedError
\* whatever the kill switch and the window are; with the circuit closed and the
\* kill switch set it raises BudgetExceededError and leaves the window alone; and
\* a rejected attempt dispatches no heartbeat, appends no timestamp, and leaves
\* consecutive_failures, circuit_tripped_until, local_kill_switch and
\* response_history unchanged.
C19_AdmissionOrder ==
  [][CreateStep =>
       /\ circuit_tripped_until > 0 =>
            (last' = "CircuitBreakerTrippedError" /\ request_timestamps' = request_timestamps)
       /\ (circuit_tripped_until = 0 /\ local_kill_switch) =>
            (last' = "BudgetExceededError: killed" /\ request_timestamps' = request_timestamps)
       /\ (circuit_tripped_until = 0 /\ ~local_kill_switch /\ Cardinality(Recent) >= 5) =>
            last' = "BudgetExceededError: rate limit"
       /\ last' # "admitted" =>
            /\ inflight' = inflight /\ pending' = pending
            /\ IsSuffix(request_timestamps', request_timestamps)
            /\ UNCHANGED <<consecutive_failures, circuit_tripped_until,
                           local_kill_switch, response_history>>]_vars

\* create() was refused by the open circuit while the kill switch was set and no
\* heartbeat was left to complete
C19_Witness ==
  /\ last = "CircuitBreakerTrippedError"
  /\ circuit_tripped_until > 0
  /\ local_kill_switch
  /\ InFlight = 0

\* create() was refused by the open circuit with the window full
C19_WitnessFull ==
  /\ last = "CircuitBreakerTrippedError"
  /\ circuit_tripped_until > 0
  /\ Cardinality(Recent) >= 5

\* ======================================================================
\* Properties of the requests for an unknown agent
\* ======================================================================
ForUnknown(r) == Received(r) /\ req[r].agent = UnknownAgent

NoRecord(a) == balance[a] = NoAmount /\ spent[a] = NoAmount /\ killed[a] = Nil

\* no ledger key is created, no counter changes, no lock key is left once no
\* request for the agent is inside its handler, and status answers {}
UnknownLeavesNothing ==
  /\ [](NoRecord(UnknownAgent))
  /\ [][(\E r \in ReqIds : ForUnknown(r)' /\ req'[r] # req[r]) => stats' = stats]_vars
  /\ []((\A r \in ReqIds : ForUnknown(r) => ~Holding(r)) => ~lock[UnknownAgent].set)
  /\ [](\A i \in Readers :
          (Answered(i) /\ rd[i].agent = UnknownAgent)
          => rd[i].status = 200 /\ rd[i].body.detail = "{}" /\ rd[i].body.floats = <<>>)

\* C20 as stated: every heartbeat or kill_switch for an agent_id without a
\* balance key fails with 404, creates no ledger key, changes no counter and
\* leaves no lock key behind, and status for such an agent returns {}.
C20_AlwaysNotFound ==
  /\ [](\A r \in ReqIds : (ForUnknown(r) /\ Done(r)) => req[r].status = 404)
  /\ UnknownLeavesNothing

\* C20: a heartbeat or kill_switch for an agent_id without a balance key fails
\* with 404 once it holds the agent's lock, and with 503 when it could not take
\* the lock within the timeout; either way it creates no ledger key, changes no
\* counter and leaves no lock key behind, and status for such an agent returns {}.
C20_UnknownAgent ==
  /\ [](\A r \in ReqIds :
          (ForUnknown(r) /\ Done(r))
          => IF req[r].acquired THEN req[r].status = 404 /\ req[r].detail = "not_found"
             ELSE req[r].status = 503)
  /\ UnknownLeavesNothing

\* a heartbeat and a kill_switch for the unknown agent were both answered 404,
\* a status call for it was answered, and nothing is left
C20_Witness ==
  /\ \E r, q \in ReqIds :
       /\ ForUnknown(r) /\ Done(r) /\ req[r].kind = "heartbeat" /\ req[r].status = 404
       /\ ForUnknown(q) /\ Done(q) /\ req[q].kind = "kill_switch" /\ req[q].status = 404
  /\ \E i \in Readers : Answered(i) /\ rd[i].agent = UnknownAgent
  /\ ~lock[UnknownAgent].set
  /\ NoRecord(UnknownAgent)

\* ======================================================================
\* Properties of the balance
\* ======================================================================
\* the stored value is below zero.  MockRedis serves a handler without a yield
\* between the comparison with the cost and the subtraction, so what it stores is
\* never below zero; Redis holds the decimal with its sign.
BelowZero(v) == backend = "redis" /\ v # NoAmount /\ v[1] < 0

\* C21: with costs that are not negative, in every reachable state of any
\* interleaving of concurrent heartbeats and kills, a holder that outlives the
\* lock's expiry included, the stored balance is >= 0, and a heartbeat answered
\* ok deducted from a balance that was >= its cost when it deducted (what was
\* left after its deduction is >= 0).
C21_BalanceNonNegative ==
  /\ \A a \in Agents : ~BelowZero(balance[a])
  /\ \A r \in ReqIds :
       (Done(r) /\ req[r].kind = "heartbeat" /\ req[r].status = 200)
       => ~BelowZero(req[r].remaining)

\* two heartbeats were answered ok one after the other's deduction and the
\* balance is what the two left
C21_Witness ==
  /\ \A r \in ReqIds : Done(r) /\ IsBeat(r) /\ req[r].status = 200
  /\ ~BelowZero(balance[SeededAgent])
  /\ balance[SeededAgent] # Amount(SeedBalance)

\* ======================================================================
\* Properties of the other statuses
\* ======================================================================
\* the statuses of a response that _send_heartbeat names in no branch
OtherStatuses == Statuses \ {200, 402}

\* a heartbeat task of the client ends
HeartbeatCompletes == Dispatched' = Dispatched - 1

\* C22: a heartbeat that completes with an HTTP status other than 200 or 402
\* (404, 500, 503) leaves consecutive_failures, circuit_tripped_until and
\* local_kill_switch as they were: the counter is not reset, the response is not
\* counted as a failure and opens no circuit, and the agent is not killed
\* locally.
C22_OtherStatusFrame ==
  [][ (HeartbeatCompletes /\ answered' \in OtherStatuses) =>
        /\ consecutive_failures' = consecutive_failures
        /\ circuit_tripped_until' = circuit_tripped_until
        /\ local_kill_switch' = local_kill_switch
        /\ failures_since_ok' = failures_since_ok
        /\ tripped_ago' = tripped_ago ]_vars

\* two failures counted, then a 503: the counter is still 2, one short of the
\* threshold, the circuit closed and the kill switch off
C22_Witness ==
  /\ answered = 503
  /\ consecutive_failures = FAILURE_THRESHOLD - 1
  /\ circuit_tripped_until = 0
  /\ tripped_ago = Never
  /\ ~local_kill_switch

\* a 500 while the circuit is open: the cooldown and the counter stay
C22_WitnessOpen ==
  /\ answered = 500
  /\ consecutive_failures = FAILURE_THRESHOLD
  /\ circuit_tripped_until = COOLDOWN_SECONDS
  /\ ~local_kill_switch

\* ======================================================================
\* Properties of the open circuit
\* ======================================================================
\* a transport failure is counted
FailureCounted == consecutive_failures' = consecutive_failures + 1

\* C23: consecutive_failures goes down only with a 200 or 402 response, so
\* neither the opening of the circuit nor the end of its cooldown resets it;
\* circuit_tripped_until never decreases (what is left of it goes down only by
\* the time that passes); and once the circuit has opened, every transport
\* failure that completes before any 200/402 sets circuit_tripped_until to that
\* moment plus 60 seconds, the circuit being open or its cooldown over.
C23_Rearming ==
  [][ /\ consecutive_failures' < consecutive_failures
           => (HeartbeatCompletes /\ answered' \in {200, 402})
      /\ circuit_tripped_until' > circuit_tripped_until
           => (FailureCounted /\ consecutive_failures' >= FAILURE_THRESHOLD)
      /\ circuit_tripped_until' < circuit_tripped_until
           => /\ ClientTick
              /\ circuit_tripped_until' = circuit_tripped_until - 1
              /\ consecutive_failures' = consecutive_failures
      /\ (FailureCounted /\ failures_since_ok >= FAILURE_THRESHOLD)
           => /\ circuit_tripped_until' = COOLDOWN_SECONDS
              /\ tripped_ago # Never ]_vars

\* the circuit opened at the third failure, its cooldown went by with the
\* counter at 3, and the one failure after it opened the circuit for 60 seconds
C23_Witness ==
  /\ reopened
  /\ consecutive_failures = FAILURE_THRESHOLD + 1
  /\ circuit_tripped_until = COOLDOWN_SECONDS
  /\ answered = 0

\* the cooldown is over and the counter still at the threshold
C23_WitnessElapsed ==
  /\ consecutive_failures = FAILURE_THRESHOLD
  /\ tripped_ago = COOLDOWN_SECONDS
  /\ circuit_tripped_until = 0

====
